---------------------------- MODULE Spec2Model ----------------------------
(***************************************************************************)
(* Mention validation, normalisation and markup injection of teams-mcp.    *)
(*                                                                         *)
(* Strings the program inspects character by character (message content,   *)
(* mention text, display names, entity ids) are sequences of one-character *)
(* strings; an optional field that is absent is a record without that      *)
(* field.                                                                  *)
(***************************************************************************)
EXTENDS Integers, Sequences, FiniteSets, TLC

VARIABLES
    \* --- validation of raw mention inputs (schema path and library path)
    vInputs,        \* the raw value handed to both validators
    vParsed,        \* result of mentionsSchema.safeParse(vInputs)
    vConverted,     \* result of convertMentionInputsToMappings(vInputs)
    vRan,           \* which of the two validators have run
    \* --- markup injection
    html,           \* content handed to processMentionsInHtml
    mappings,       \* mention mappings handed to processMentionsInHtml
    out,            \* its result
    injected,       \* whether processMentionsInHtml has returned
    \* --- one invocation of a send tool
    tool,           \* the tool invoked
    args,           \* its arguments as the caller sent them
    pc,             \* the step of the invocation that runs next
    mentions,       \* the mentions argument as parsed by the tool's schema
    content,        \* handler local: content
    contentType,    \* handler local: contentType
    mentionMappings,\* handler local: mentionMappings
    next,           \* position of the for...of loop over mentions
    finalMentions,  \* handler local: finalMentions
    lookups,        \* user ids the directory was asked for, in call order
    responses,      \* what the directory answered, in call order
    warnings,       \* messages written with console.warn
    calls,          \* the calls the handler has made, in order
    posted,         \* payloads posted to the Graph API
    result,         \* what the invocation returned to the caller
    imageInfo,      \* handler local: imageInfo
    attachments,    \* handler local: attachments
    imageOutcomes,  \* what the image helpers answered, in call order
    \* --- one GraphService instance and the calls made on it
    client,         \* GraphService field: client
    msalClient,     \* GraphService field: msalClient
    isInitialized,  \* GraphService field: isInitialized
    authInfo,       \* GraphService field: authInfo
    created,        \* number of Client.initWithMiddleware invocations so far
    requests        \* the getClient / getAuthStatus calls: position and result

validationVars == <<vInputs, vParsed, vConverted, vRan>>
injectVars == <<html, mappings, out, injected>>
imageVars == <<imageInfo, attachments, imageOutcomes>>
toolVars == <<tool, args, pc, mentions, content, contentType, mentionMappings,
              next, finalMentions, lookups, responses, warnings, calls, posted, result,
              imageInfo, attachments, imageOutcomes>>
graphVars == <<client, msalClient, isInitialized, authInfo, created, requests>>
vars == <<validationVars, injectVars, toolVars, graphVars>>

-----------------------------------------------------------------------------
(* Bounds *)

\* longest raw mentions list handed to the validators
MaxInputs == 2

\* number of getClient / getAuthStatus calls made on one GraphService instance
MaxCalls == 3

\* longest list of mention mappings handed to processMentionsInHtml
MaxMappings == 2

\* the content handed to processMentionsInHtml is made of at most this many
\* pieces of ContentPieces
MaxPieces == 3

\* longest mentions list a caller sends to a send tool
MaxToolMentions == 2

-----------------------------------------------------------------------------
(* Generic helpers *)

Range(s) == {s[i] : i \in DOMAIN s}

SeqsUpTo(S, n) == UNION {[1..k -> S] : k \in 0..n}

\* JavaScript truthiness of an optional string field: present and non-empty
Truthy(obj, field) == field \in DOMAIN obj /\ obj[field] # << >>

\* An error message is a sequence of segments: literal text of the source's
\* template, or an interpolated value.
Lit(text) == [lit |-> text]
Val(v) == [val |-> v]

NamesField(message, field) ==
    \E i \in DOMAIN message : "lit" \in DOMAIN message[i] /\ message[i].lit = field

NamesToken(message, token) ==
    \E i \in DOMAIN message : "val" \in DOMAIN message[i] /\ message[i].val = token

-----------------------------------------------------------------------------
(* types/mentions.ts: type guards and convertMentionInputsToMappings *)

isUserMentionMapping(mapping) == "userId" \in DOMAIN mapping

isChannelMentionMapping(mapping) == "channelId" \in DOMAIN mapping

\* variant: the thrown message omits the mention text
InvalidMentionMessageWithoutToken(input) ==
    << Lit("Invalid mention: must have either "), Lit("userId"), Lit(" or "),
       Lit("channelId") >>

\* the message of the Error thrown for an input with neither id
InvalidMentionMessage(input) ==
    << Lit("Invalid mention: \""), Val(input.mention), Lit("\" must have either "),
       Lit("userId"), Lit(" or "), Lit("channelId") >>

\* variant: the mapping is built by spreading the input, so an input with
\* both ids keeps both
ConvertOneSpreadingInput(input) ==
    IF Truthy(input, "userId") \/ Truthy(input, "channelId")
    THEN [threw |-> FALSE,
          value |-> [f \in DOMAIN input \cup {"displayName"} |->
                        IF f = "displayName" THEN input.mention ELSE input[f]]]
    ELSE [threw |-> TRUE, message |-> InvalidMentionMessage(input)]

\* the callback of inputs.map: a mapping, or the thrown error
ConvertOne(input) ==
    IF Truthy(input, "userId")
    THEN [threw |-> FALSE,
          value |-> [mention |-> input.mention, userId |-> input.userId,
                     displayName |-> input.mention]]
    ELSE IF Truthy(input, "channelId")
    THEN [threw |-> FALSE,
          value |-> [mention |-> input.mention, channelId |-> input.channelId,
                     displayName |-> input.mention]]
    ELSE [threw |-> TRUE, message |-> InvalidMentionMessage(input)]

\* variant: the mappings are collected in reverse order
RECURSIVE MapConvertReversed(_, _)
MapConvertReversed(inputs, acc) ==
    IF inputs = << >> THEN [threw |-> FALSE, value |-> acc]
    ELSE LET r == ConvertOne(Head(inputs))
         IN  IF r.threw THEN r
             ELSE MapConvertReversed(Tail(inputs), <<r.value>> \o acc)

\* Array.prototype.map: the callback runs on the elements in order; the first
\* throw propagates and nothing is returned.
RECURSIVE MapConvert(_, _)
MapConvert(inputs, acc) ==
    IF inputs = << >> THEN [threw |-> FALSE, value |-> acc]
    ELSE LET r == ConvertOne(Head(inputs))
         IN  IF r.threw THEN r
             ELSE MapConvert(Tail(inputs), Append(acc, r.value))

\* variant: inputs with neither id are skipped instead of throwing
RECURSIVE ConvertSkippingInvalid(_)
ConvertSkippingInvalid(inputs) ==
    IF inputs = << >> THEN [threw |-> FALSE, value |-> << >>]
    ELSE LET r == ConvertOne(Head(inputs))
             rest == ConvertSkippingInvalid(Tail(inputs))
         IN  [threw |-> FALSE,
              value |-> IF r.threw THEN rest.value ELSE <<r.value>> \o rest.value]

convertMentionInputsToMappings(inputs) == MapConvert(inputs, << >>)

-----------------------------------------------------------------------------
(* tools/teams.ts: the shared mentions schema *)

\* variant: an empty-string id counts as present
RefineElementEmptyCounts(m) ==
    LET hasUserId == "userId" \in DOMAIN m
        hasChannelId == "channelId" \in DOMAIN m
    IN  (hasUserId /\ ~hasChannelId) \/ (~hasUserId /\ hasChannelId)

\* the predicate of .refine(): every element names exactly one entity kind
RefineElement(m) ==
    LET hasUserId == "userId" \in DOMAIN m /\ m.userId # << >>
        hasChannelId == "channelId" \in DOMAIN m /\ m.channelId # << >>
    IN  (hasUserId /\ ~hasChannelId) \/ (~hasUserId /\ hasChannelId)

\* variant: the message names only one of the two fields
RefineMessageUserOnly ==
    << Lit("Invalid mention configuration: Each mention must specify '"),
       Lit("userId"), Lit("'.") >>

RefineMessage ==
    << Lit("Invalid mention configuration: Each mention must specify exactly one of '"),
       Lit("userId"), Lit("' (for user mentions) or '"), Lit("channelId"),
       Lit("' (for channel mentions). Found mention with both or neither. Check that each mention in the array has either "),
       Lit("userId"), Lit(" OR "), Lit("channelId"), Lit(", not both and not neither.") >>

\* z.array(z.object({mention, userId?, channelId?})).refine(...).optional()
\* applied to a value that is undefined ([present |-> FALSE]) or an array of
\* objects with a string mention.
mentionsSchema(input) ==
    IF ~input.present THEN [success |-> TRUE, data |-> input]
    ELSE IF \A i \in DOMAIN input.list : RefineElement(input.list[i])
    THEN [success |-> TRUE, data |-> input]
    ELSE [success |-> FALSE, message |-> RefineMessage]

-----------------------------------------------------------------------------
(* utils/users.ts: escapeRegex, the mention pattern and String.replace *)

\* the characters of the class [.*+?^${}()|[\]\\]
RegexMetaChars ==
    {".", "*", "+", "?", "^", "$", "{", "}", "(", ")", "|", "[", "]", "\\"}

\* variant: nothing is escaped
escapeRegexNothing(text) == text

\* text.replace(/[.*+?^${}()|[\]\\]/g, "\\$&"): a backslash before each
\* metacharacter
RECURSIVE escapeRegex(_)
escapeRegex(text) ==
    IF text = << >> THEN << >>
    ELSE (IF Head(text) \in RegexMetaChars THEN <<"\\", Head(text)>> ELSE <<Head(text)>>)
         \o escapeRegex(Tail(text))

\* variant: a mention that contains a space gets the quoted alternative only
MentionRegexQuotedIfSpace(mention) ==
    LET e == escapeRegex(mention)
        quoted == <<"\"">> \o e \o <<"\"">>
    IN  [prefix |-> <<"@">>,
         alternatives |-> IF " " \in Range(mention) THEN <<quoted>> ELSE <<quoted, e>>]

\* new RegExp(`@(?:"${escapeRegex(m)}"|${escapeRegex(m)})`, "g"): the pattern
\* source, kept as its prefix and the two alternatives of the group, in order
MentionRegex(mention) ==
    LET e == escapeRegex(mention)
    IN  [prefix |-> <<"@">>, alternatives |-> << <<"\"">> \o e \o <<"\"">>, e >>]

\* the pattern source handed to new RegExp
MentionRegexSource(mention) ==
    <<"@", "(", "?", ":", "\"">> \o escapeRegex(mention) \o <<"\"", "|">>
        \o escapeRegex(mention) \o <<")">>

\* position of the "]" that closes a character class whose content starts at
\* pos, or 0 when the class is not closed
RECURSIVE ClassEnd(_, _)
ClassEnd(source, pos) ==
    IF pos > Len(source) THEN 0
    ELSE IF source[pos] = "\\" THEN ClassEnd(source, pos + 2)
    ELSE IF source[pos] = "]" THEN pos
    ELSE ClassEnd(source, pos + 1)

\* Whether new RegExp(source) throws a SyntaxError, for a source read without
\* the u flag: a backslash at the end, an unbalanced parenthesis, a group
\* that opens with "(?" and no known group kind, an unterminated character
\* class, or a quantifier with nothing to repeat.  depth counts the open
\* groups; prev tells what precedes: "none" (nothing that can be repeated),
\* "atom" or "quantifier".  A "{" or "}" that is not part of a quantifier and
\* a lone "]" are literal characters.
RECURSIVE RegExpSyntaxErrorFrom(_, _, _, _)
RegExpSyntaxErrorFrom(source, pos, depth, prev) ==
    IF pos > Len(source) THEN depth # 0
    ELSE LET c == source[pos]
         IN  CASE c = "\\" ->
                     pos = Len(source) \/ RegExpSyntaxErrorFrom(source, pos + 2, depth, "atom")
               [] c = "(" ->
                     IF pos < Len(source) /\ source[pos + 1] = "?"
                     THEN IF pos + 2 <= Len(source) /\ source[pos + 2] \in {":", "=", "!", "<"}
                          THEN RegExpSyntaxErrorFrom(source, pos + 3, depth + 1, "none")
                          ELSE TRUE
                     ELSE RegExpSyntaxErrorFrom(source, pos + 1, depth + 1, "none")
               [] c = ")" ->
                     depth = 0 \/ RegExpSyntaxErrorFrom(source, pos + 1, depth - 1, "atom")
               [] c = "[" ->
                     LET end == ClassEnd(source, pos + 1)
                     IN  end = 0 \/ RegExpSyntaxErrorFrom(source, end + 1, depth, "atom")
               [] c \in {"*", "+"} ->
                     prev # "atom" \/ RegExpSyntaxErrorFrom(source, pos + 1, depth, "quantifier")
               [] c = "?" ->
                     prev = "none"
                         \/ RegExpSyntaxErrorFrom(source, pos + 1, depth,
                                                  IF prev = "atom" THEN "quantifier" ELSE "none")
               [] c \in {"|", "^", "$"} ->
                     RegExpSyntaxErrorFrom(source, pos + 1, depth, "none")
               [] OTHER ->
                     RegExpSyntaxErrorFrom(source, pos + 1, depth, "atom")

RegExpSyntaxError(source) == RegExpSyntaxErrorFrom(source, 1, 0, "none")

\* How the regular-expression engine reads a pattern source without
\* quantifiers: backslash + c is the literal c, an unescaped "." is any
\* character but a line break, an unescaped "$" is the end of input, any
\* other character is itself.  The result is the number of characters
\* matched from position pos of s, or -1.
RECURSIVE MatchSource(_, _, _)
MatchSource(source, s, pos) ==
    IF source = << >> THEN 0
    ELSE IF Head(source) = "\\" /\ Len(source) >= 2
    THEN IF pos <= Len(s) /\ s[pos] = source[2]
         THEN LET rest == MatchSource(SubSeq(source, 3, Len(source)), s, pos + 1)
              IN  IF rest < 0 THEN -1 ELSE rest + 1
         ELSE -1
    ELSE IF Head(source) = "$"
    THEN IF pos = Len(s) + 1 THEN MatchSource(Tail(source), s, pos) ELSE -1
    ELSE IF pos <= Len(s) /\ (IF Head(source) = "." THEN s[pos] # "\n" ELSE s[pos] = Head(source))
    THEN LET rest == MatchSource(Tail(source), s, pos + 1)
         IN  IF rest < 0 THEN -1 ELSE rest + 1
    ELSE -1

\* the alternatives of the group are tried in order
RECURSIVE MatchAlternatives(_, _, _)
MatchAlternatives(alternatives, s, pos) ==
    IF alternatives = << >> THEN -1
    ELSE LET n == MatchSource(Head(alternatives), s, pos)
         IN  IF n >= 0 THEN n ELSE MatchAlternatives(Tail(alternatives), s, pos)

\* length of the match of regex that starts at position pos of s, or -1
MatchAt(regex, s, pos) ==
    LET p == MatchSource(regex.prefix, s, pos)
    IN  IF p < 0 THEN -1
        ELSE LET n == MatchAlternatives(regex.alternatives, s, pos + p)
             IN  IF n < 0 THEN -1 ELSE p + n

\* the grave accent U+0060, which cannot be written inside a TLA+ string
Backtick == "grave"

\* GetSubstitution of String.prototype.replace for a pattern without capture
\* groups: $$ is "$", $& the match, $` the text before it, $' the text after
\* it; any other "$" stays as written.
RECURSIVE GetSubstitution(_, _, _, _)
GetSubstitution(replacement, s, pos, n) ==
    IF replacement = << >> THEN << >>
    ELSE IF Head(replacement) = "$" /\ Len(replacement) >= 2
              /\ replacement[2] \in {"$", "&", Backtick, "'"}
    THEN (CASE replacement[2] = "$" -> <<"$">>
            [] replacement[2] = "&" -> SubSeq(s, pos, pos + n - 1)
            [] replacement[2] = Backtick -> SubSeq(s, 1, pos - 1)
            [] OTHER -> SubSeq(s, pos + n, Len(s)))
         \o GetSubstitution(SubSeq(replacement, 3, Len(replacement)), s, pos, n)
    ELSE <<Head(replacement)>> \o GetSubstitution(Tail(replacement), s, pos, n)

\* s.replace(regex, replacement) with the g flag: the matches are found left
\* to right, each search resuming after the previous match
RECURSIVE ReplaceFrom(_, _, _, _, _)
ReplaceFrom(s, regex, replacement, pos, acc) ==
    IF pos > Len(s) THEN acc
    ELSE LET n == MatchAt(regex, s, pos)
         IN  IF n > 0
             THEN ReplaceFrom(s, regex, replacement, pos + n,
                              acc \o GetSubstitution(replacement, s, pos, n))
             ELSE ReplaceFrom(s, regex, replacement, pos + 1, Append(acc, s[pos]))

Replace(s, regex, replacement) == ReplaceFrom(s, regex, replacement, 1, << >>)

-----------------------------------------------------------------------------
(* utils/users.ts: processMentionsInHtml *)

Digits == <<"0", "1", "2", "3", "4", "5", "6", "7", "8", "9">>

\* `${mentionId}`: the decimal digits of a non-negative integer
RECURSIVE NumberToString(_)
NumberToString(n) ==
    IF n < 10 THEN <<Digits[n + 1]>> ELSE NumberToString(n \div 10) \o <<Digits[(n % 10) + 1]>>

AtOpen(mentionId) ==
    <<"<", "a", "t", " ", "i", "d", "=", "\"">> \o NumberToString(mentionId) \o <<"\"", ">">>

AtClose == <<"<", "/", "a", "t", ">">>

\* `<at id="${mentionId}">${mapping.displayName}</at>`
AtTemplate(mentionId, mapping) == AtOpen(mentionId) \o mapping.displayName \o AtClose

\* variant: every mapping is reported with a user target
GraphMentionOfAlwaysUser(mapping, mentionId) ==
    [id |-> mentionId,
     mentionText |-> mapping.displayName,
     mentioned |-> [user |-> [id |-> IF "userId" \in DOMAIN mapping THEN mapping.userId
                                     ELSE mapping.channelId]]]

\* the record pushed for a mapping
GraphMentionOf(mapping, mentionId) ==
    IF isUserMentionMapping(mapping)
    THEN [id |-> mentionId,
          mentionText |-> mapping.displayName,
          mentioned |-> [user |-> [id |-> mapping.userId]]]
    ELSE [id |-> mentionId,
          mentionText |-> mapping.displayName,
          mentioned |-> [conversation |->
                            [id |-> mapping.channelId,
                             displayName |-> mapping.displayName,
                             conversationIdentityType |-> "channel"]]]

\* variant: a record is pushed only when the mention was found in the content
ForEachCallbackOnlyIfFound(acc, mapping, index) ==
    LET replaced == Replace(acc.content, MentionRegex(mapping.mention),
                            AtTemplate(index, mapping))
    IN  [content |-> replaced,
         mentions |-> IF replaced = acc.content THEN acc.mentions
                      ELSE Append(acc.mentions, GraphMentionOf(mapping, index))]

\* what the call becomes when the callback throws
Thrown(error) == [threw |-> TRUE, error |-> error]

\* variant: a mention that is not found in the content is an error
ForEachCallbackThrowingIfUnmatched(acc, mapping, index) ==
    LET replaced == Replace(acc.content, MentionRegex(mapping.mention),
                            AtTemplate(index, mapping))
    IN  IF replaced = acc.content THEN Thrown("Error")
        ELSE [content |-> replaced,
              mentions |-> Append(acc.mentions, GraphMentionOf(mapping, index))]

\* the callback of mentionMappings.forEach, on processedContent and mentions;
\* new RegExp throws when the pattern source is not a pattern
ForEachCallback(acc, mapping, index) ==
    IF RegExpSyntaxError(MentionRegexSource(mapping.mention))
    THEN Thrown("SyntaxError")
    ELSE [content |-> Replace(acc.content, MentionRegex(mapping.mention),
                              AtTemplate(index, mapping)),
          mentions |-> Append(acc.mentions, GraphMentionOf(mapping, index))]

\* Array.prototype.forEach: an exception of the callback ends the iteration
\* and propagates
RECURSIVE ForEach(_, _, _)
ForEach(list, index, acc) ==
    IF index >= Len(list) \/ "threw" \in DOMAIN acc THEN acc
    ELSE ForEach(list, index + 1, ForEachCallback(acc, list[index + 1], index))

\* variant: an early return for an empty list that drops the content
processMentionsInHtmlEmptyDrops(text, list) ==
    IF list = << >> THEN [content |-> << >>, mentions |-> << >>]
    ELSE ForEach(list, 0, [content |-> text, mentions |-> << >>])

\* processMentionsInHtml(html, mentionMappings)
processMentionsInHtml(text, list) ==
    ForEach(list, 0, [content |-> text, mentions |-> << >>])

-----------------------------------------------------------------------------
(* Inputs of the validation runs *)

MentionA == <<"a">>
MentionB == <<"a", " ", "b">>
RawMentionTexts == {MentionA, MentionB}
UserId1 == <<"u", "1">>
UserId2 == <<"u", "2">>
\* a channel id of the shape 19:...@thread.tacv2, and one of another shape
WellFormedChannelId ==
    <<"1", "9", ":", "c", "@", "t", "h", "r", "e", "a", "d", ".", "t", "a", "c", "v", "2">>
MalformedChannelId == <<"c", "1">>

RawUserIds == {<< >>, UserId1}
RawChannelIds == {<< >>, WellFormedChannelId}

\* every {mention, userId?, channelId?} over the values above
RawMentionInputs ==
    {[mention |-> t] : t \in RawMentionTexts}
    \cup {[mention |-> t, userId |-> u] : t \in RawMentionTexts, u \in RawUserIds}
    \cup {[mention |-> t, channelId |-> c] : t \in RawMentionTexts, c \in RawChannelIds}
    \cup {[mention |-> t, userId |-> u, channelId |-> c] :
              t \in RawMentionTexts, u \in RawUserIds, c \in RawChannelIds}

Undefined == [present |-> FALSE]
Defined(list) == [present |-> TRUE, list |-> list]

NotRun == [pending |-> TRUE]

\* let imageInfo: { data: string; contentType: string } | null = null
NoImageInfo == [present |-> FALSE]

-----------------------------------------------------------------------------
(* Specification of the validation runs: one raw value, validated by the   *)
(* schema and converted by the library function, in either order.          *)

\* private client: Client | undefined
NoClient == [present |-> FALSE]

\* a call that has not been made yet
IdleRequest ==
    [method |-> "none", pc |-> "idle", sawInitialized |-> FALSE, read |-> FALSE,
     outcome |-> "none", me |-> "none", after |-> {}, result |-> NotRun]

\* new GraphService(): no client, no MSAL application, isInitialized = false
GraphFresh ==
    /\ client = NoClient
    /\ msalClient = NoClient
    /\ isInitialized = FALSE
    /\ authInfo = Undefined
    /\ created = 0
    /\ requests = [c \in 1..MaxCalls |-> IdleRequest]

ToolIdle ==
    /\ tool = "none"
    /\ args = [format |-> "text"]
    /\ pc = "idle"
    /\ mentions = Undefined
    /\ content = << >>
    /\ contentType = "text"
    /\ mentionMappings = << >>
    /\ next = 1
    /\ finalMentions = << >>
    /\ lookups = << >>
    /\ responses = << >>
    /\ warnings = << >>
    /\ calls = << >>
    /\ posted = << >>
    /\ result = NotRun
    /\ imageInfo = NoImageInfo
    /\ attachments = << >>
    /\ imageOutcomes = << >>

InjectIdle ==
    /\ html = << >>
    /\ mappings = << >>
    /\ out = NotRun
    /\ injected = FALSE

ValidateInit ==
    /\ vInputs \in {Undefined} \cup {Defined(l) : l \in SeqsUpTo(RawMentionInputs, MaxInputs)}
    /\ vParsed = NotRun
    /\ vConverted = NotRun
    /\ vRan = {}
    /\ InjectIdle
    /\ ToolIdle
    /\ GraphFresh

SafeParse ==
    /\ "schema" \notin vRan
    /\ vParsed' = mentionsSchema(vInputs)
    /\ vRan' = vRan \cup {"schema"}
    /\ UNCHANGED <<vInputs, vConverted, injectVars, toolVars, graphVars>>

\* the library function is typed MentionInput[]: it is called with arrays
Convert ==
    /\ "library" \notin vRan
    /\ vInputs.present
    /\ vConverted' = convertMentionInputsToMappings(vInputs.list)
    /\ vRan' = vRan \cup {"library"}
    /\ UNCHANGED <<vInputs, vParsed, injectVars, toolVars, graphVars>>

ValidateNext == SafeParse \/ Convert

SpecValidate == ValidateInit /\ [][ValidateNext]_vars

-----------------------------------------------------------------------------
(* Inputs of the injection runs *)

\* a user whose directory display name differs from the mention text
UserA == [mention |-> <<"a">>, userId |-> UserId1, displayName |-> <<"A", "l">>]
\* a channel whose mention text contains a space
ChannelAA == [mention |-> <<"a", " ", "a">>, channelId |-> WellFormedChannelId,
              displayName |-> <<"a", " ", "a">>]
UserB == [mention |-> <<"b">>, userId |-> UserId2, displayName |-> <<"b">>]

InjectMappings == {UserA, ChannelAA, UserB}

\* bare and quoted occurrences of the mention texts, and filler text
ContentPieces ==
    { <<"@", "a">>, <<"@", "b">>, <<"@", "\"", "a", "\"">>,
      <<"@", "\"", "a", " ", "a", "\"">>, <<" ">>, <<"a">> }

RECURSIVE Flatten(_)
Flatten(pieces) ==
    IF pieces = << >> THEN << >> ELSE Head(pieces) \o Flatten(Tail(pieces))

InjectContents == {Flatten(ps) : ps \in SeqsUpTo(ContentPieces, MaxPieces)}

-----------------------------------------------------------------------------
(* Specification of the injection runs: one call of processMentionsInHtml  *)

ValidateIdle ==
    /\ vInputs = Undefined
    /\ vParsed = NotRun
    /\ vConverted = NotRun
    /\ vRan = {}

InjectInit ==
    /\ html \in InjectContents
    /\ mappings \in SeqsUpTo(InjectMappings, MaxMappings)
    /\ out = NotRun
    /\ injected = FALSE
    /\ ValidateIdle
    /\ ToolIdle
    /\ GraphFresh

ProcessMentions ==
    /\ ~injected
    /\ out' = processMentionsInHtml(html, mappings)
    /\ injected' = TRUE
    /\ UNCHANGED <<html, mappings, validationVars, toolVars, graphVars>>

InjectNext == ProcessMentions

SpecInject == InjectInit /\ [][InjectNext]_vars

-----------------------------------------------------------------------------
(* Specification of the literal-match runs: one call of                    *)
(* processMentionsInHtml with one mapping whose mention text holds regex   *)
(* metacharacters or capitals, on content with the mention text and with a *)
(* near miss of it.                                                        *)

\* a mention text and a text that differs from it where a pattern that is not
\* literal would not tell: in a character a "." would stand for, or in case
LiteralCases ==
    { [token |-> <<"a", ".", "b">>, near |-> <<"a", "x", "b">>],
      [token |-> <<"A", "b">>, near |-> <<"a", "b">>] }
    \cup {[token |-> <<c>>, near |-> <<"x">>] : c \in RegexMetaChars}

LiteralPieces(case) ==
    { <<"@">> \o case.token, <<"@">> \o case.near,
      <<"@", "\"">> \o case.token \o <<"\"">>, <<"@", "\"">> \o case.near \o <<"\"">>,
      case.token, <<" ">> }

LiteralInit ==
    /\ \E case \in LiteralCases :
           /\ mappings = << [mention |-> case.token, userId |-> UserId1,
                             displayName |-> <<"N">>] >>
           /\ html \in {Flatten(ps) : ps \in SeqsUpTo(LiteralPieces(case), MaxPieces)}
    /\ out = NotRun
    /\ injected = FALSE
    /\ ValidateIdle
    /\ ToolIdle
    /\ GraphFresh

SpecLiteral == LiteralInit /\ [][InjectNext]_vars

-----------------------------------------------------------------------------
(* Specification of the label runs: one call of processMentionsInHtml with *)
(* display names that hold the characters $, &, <, the grave accent, or    *)
(* the "@" form of another mention text.                                   *)

\* display names as a directory may return them
SpecialLabels ==
    { <<"$", "&">>, <<"$", "$">>, <<"$", "'">>, <<"$", Backtick>>, <<"<", "&">>,
      <<"@", "b">> }

LabelMappings ==
    {[mention |-> <<"a">>, userId |-> UserId1, displayName |-> l] : l \in SpecialLabels}
    \cup {UserB}

LabelPieces == { <<"@", "a">>, <<"@", "b">>, <<"x">> }

LabelInit ==
    /\ html \in {Flatten(ps) : ps \in SeqsUpTo(LabelPieces, MaxPieces)}
    /\ mappings \in SeqsUpTo(LabelMappings, MaxMappings)
    /\ out = NotRun
    /\ injected = FALSE
    /\ ValidateIdle
    /\ ToolIdle
    /\ GraphFresh

SpecLabels == LabelInit /\ [][InjectNext]_vars

-----------------------------------------------------------------------------
(* tools/teams.ts and tools/chats.ts: the send tools *)

ChannelTools == {"send_channel_message", "reply_to_channel_message"}
ChatTools == {"send_chat_message"}

\* send_chat_message declares its own schema:
\* z.array(z.object({mention: z.string(), userId: z.string()})).optional().
\* userId is required but may be empty; keys the object schema does not
\* declare (channelId) are stripped from the parsed value.
chatMentionsSchema(input) ==
    IF ~input.present THEN [success |-> TRUE, data |-> input]
    ELSE IF \A i \in DOMAIN input.list : "userId" \in DOMAIN input.list[i]
    THEN [success |-> TRUE,
          data |-> Defined([i \in DOMAIN input.list |->
                               [mention |-> input.list[i].mention,
                                userId |-> input.list[i].userId]])]
    ELSE [success |-> FALSE, message |-> <<Lit("Required")>>]

\* the schema each tool registers for its mentions parameter
ToolMentionsSchema(name, input) ==
    IF name \in ChatTools THEN chatMentionsSchema(input) ELSE mentionsSchema(input)

\* markdownToHtml(message): the renderer wraps the text in a paragraph
markdownToHtml(message) == <<"<", "p", ">">> \o message \o <<"<", "/", "p", ">">>

\* what client.api(`/users/${id}`).select("displayName").get() can do: resolve
\* with a display name, resolve with an empty one, or throw
DirectoryName == <<"A", "l">>
LookupOutcomes ==
    {[kind |-> "resolves", displayName |-> DirectoryName],
     [kind |-> "resolves", displayName |-> << >>],
     [kind |-> "throws"]}

\* variant: ?? in place of ||, an empty display name is kept
ResolvedDisplayNameNullish(response, mention) ==
    IF response.kind = "resolves" THEN response.displayName ELSE mention.mention

\* userResponse.displayName || mention.mention, and the catch branch
ResolvedDisplayName(response, mention) ==
    IF response.kind = "resolves" /\ response.displayName # << >>
    THEN response.displayName
    ELSE mention.mention

\* variant: the catch branch asks the directory a second time
LookupCallsWithRetry(response, userId) ==
    IF response.kind = "throws" THEN <<userId, userId>> ELSE <<userId>>

\* the requests one try block makes to /users/${mention.userId}
LookupCalls(response, userId) == <<userId>>

\* the console.warn of the catch branch
LookupWarnings(response, mention) ==
    IF response.kind = "throws"
    THEN << <<Lit("Could not resolve user "), Val(mention.userId),
              Lit(", using mention text as display name")>> >>
    ELSE << >>

\* the character class [a-zA-Z0-9_-]
ChannelIdChars ==
    Range(<<"a", "b", "c", "d", "e", "f", "g", "h", "i", "j", "k", "l", "m", "n", "o", "p", "q", "r", "s", "t", "u", "v", "w", "x", "y", "z">>)
    \cup Range(<<"A", "B", "C", "D", "E", "F", "G", "H", "I", "J", "K", "L", "M", "N", "O", "P", "Q", "R", "S", "T", "U", "V", "W", "X", "Y", "Z">>)
    \cup Range(<<"0", "1", "2", "3", "4", "5", "6", "7", "8", "9">>)
    \cup {"_", "-"}

\* /^19:[a-zA-Z0-9_-]+@thread\.tacv2$/.test(channelId)
ChannelIdPatternTest(channelId) ==
    LET prefix == <<"1", "9", ":">>
        suffix == <<"@", "t", "h", "r", "e", "a", "d", ".", "t", "a", "c", "v", "2">>
        n == Len(channelId)
    IN  /\ n >= Len(prefix) + 1 + Len(suffix)
        /\ SubSeq(channelId, 1, Len(prefix)) = prefix
        /\ SubSeq(channelId, n - Len(suffix) + 1, n) = suffix
        /\ \A i \in (Len(prefix) + 1)..(n - Len(suffix)) : channelId[i] \in ChannelIdChars

ChannelIdWarning(channelId, mentionText) ==
    << Lit("Channel mention \""), Val(mentionText), Lit("\": Channel ID \""),
       Val(channelId), Lit("\" may not be in the expected format. "),
       Lit("Expected format: \"19:xxx@thread.tacv2\". The mention may not work correctly.") >>

\* variant: an id of another shape is an error
validateChannelIdFormatThrowing(channelId, mentionText) ==
    IF ChannelIdPatternTest(channelId) THEN [threw |-> FALSE, warnings |-> << >>]
    ELSE [threw |-> TRUE, message |-> ChannelIdWarning(channelId, mentionText)]

\* validateChannelIdFormat(channelId, mentionText): returns normally, having
\* written at most one warning
validateChannelIdFormat(channelId, mentionText) ==
    [threw |-> FALSE,
     warnings |-> IF ChannelIdPatternTest(channelId) THEN << >>
                  ELSE <<ChannelIdWarning(channelId, mentionText)>>]

\* variant: unshift in place of push
PushMappingInFront(list, mapping) == <<mapping>> \o list

\* mentionMappings.push(mapping)
PushMapping(list, mapping) == Append(list, mapping)

\* the object literal posted: mentions is set only when finalMentions is
\* not empty
MessagePayload(body, type, graphMentions, attached) ==
    LET given == {"body"} \cup (IF Len(graphMentions) > 0 THEN {"mentions"} ELSE {})
                          \cup (IF Len(attached) > 0 THEN {"attachments"} ELSE {})
    IN  [f \in given |->
            IF f = "body" THEN [content |-> body, contentType |-> type]
            ELSE IF f = "mentions" THEN graphMentions
            ELSE attached]

IsErrorResult(message) == [kind |-> "error", isError |-> TRUE, message |-> message]

\* variant: the content is rendered after the mentions were injected
HandlerStepsRenderLast ==
    <<"getClient", "normalise", "inject", "render", "image", "upload", "post">>

\* the statements of the handler's try block, in source order
HandlerSteps ==
    <<"getClient", "render", "normalise", "inject", "image", "upload", "post">>

\* if (imageUrl || imageData), in the channel tools; send_chat_message has
\* no image handling
HandlesImage ==
    tool \in ChannelTools /\ (Truthy(args, "imageUrl") \/ Truthy(args, "imageData"))

\* the statement that follows a statement, or "done" after the last
StepAfter(step) ==
    LET i == CHOOSE k \in DOMAIN HandlerSteps : HandlerSteps[k] = step
    IN  IF i < Len(HandlerSteps) THEN HandlerSteps[i + 1] ELSE "done"

\* if (mentions && mentions.length > 0): the loop is entered only for a
\* non-empty list
Enter(step, parsed) ==
    IF step = "normalise" /\ ~(parsed.present /\ Len(parsed.list) > 0)
    THEN StepAfter(step)
    ELSE IF step = "image" /\ ~HandlesImage
    THEN StepAfter(StepAfter(step))
    ELSE step

-----------------------------------------------------------------------------
(* Inputs of a send tool invocation *)

ToolNames == ChannelTools \cup ChatTools

\* a message that mentions both mention texts
MessageWithMentions == <<"@", "a", " ", "@", "\"", "a", " ", "b", "\"">>
ToolMessages == {MessageWithMentions}

\* raw mention elements a caller sends: neither id, a user id (empty or not),
\* a channel id (well-formed or not), both ids, an empty user id with a
\* channel id
ToolMentionInputs ==
    {[mention |-> t] : t \in RawMentionTexts}
    \cup {[mention |-> t, userId |-> u] : t \in RawMentionTexts, u \in {<< >>, UserId1}}
    \cup {[mention |-> t, channelId |-> c] :
              t \in RawMentionTexts, c \in {WellFormedChannelId, MalformedChannelId}}
    \cup {[mention |-> t, userId |-> u, channelId |-> WellFormedChannelId] :
              t \in RawMentionTexts, u \in {<< >>, UserId1}}

ToolArgs ==
    {[message |-> m, format |-> f, mentions |-> ms] :
        m \in ToolMessages, f \in {"text", "markdown"},
        ms \in {Undefined} \cup
               {Defined(l) : l \in SeqsUpTo(ToolMentionInputs, MaxToolMentions)}}

-----------------------------------------------------------------------------
(* Specification of one send tool invocation: the steps of the handler in  *)
(* program order, each await a step.                                       *)

Init ==
    /\ tool \in ToolNames
    /\ args \in ToolArgs
    /\ pc = "validate"
    /\ mentions = Undefined
    /\ content = << >>
    /\ contentType = "text"
    /\ mentionMappings = << >>
    /\ next = 1
    /\ finalMentions = << >>
    /\ lookups = << >>
    /\ responses = << >>
    /\ warnings = << >>
    /\ calls = << >>
    /\ posted = << >>
    /\ result = NotRun
    /\ imageInfo = NoImageInfo
    /\ attachments = << >>
    /\ imageOutcomes = << >>
    /\ ValidateIdle
    /\ InjectIdle
    /\ GraphFresh

\* the server parses the arguments with the tool's schema and calls the
\* handler only when they parse
ValidateArgs ==
    /\ pc = "validate"
    /\ LET r == ToolMentionsSchema(tool, args.mentions)
       IN  IF r.success
           THEN /\ mentions' = r.data
                /\ pc' = Enter(HandlerSteps[1], r.data)
                /\ UNCHANGED result
           ELSE /\ result' = [kind |-> "rejected", message |-> r.message]
                /\ pc' = "done"
                /\ UNCHANGED mentions
    /\ UNCHANGED <<tool, args, content, contentType, mentionMappings, next,
                   finalMentions, lookups, responses, warnings, calls, posted,
                   validationVars, injectVars, imageVars, graphVars>>

\* const client = await graphService.getClient(): resolves, or rejects and
\* the handler's catch returns an error result
GetClient ==
    /\ pc = "getClient"
    /\ calls' = Append(calls, "getClient")
    /\ \E authenticated \in BOOLEAN :
           IF authenticated
           THEN pc' = Enter(StepAfter("getClient"), mentions) /\ UNCHANGED result
           ELSE /\ pc' = "done"
                /\ result' = IsErrorResult(<<Lit("Not authenticated")>>)
    /\ UNCHANGED <<tool, args, mentions, content, contentType, mentionMappings, next,
                   finalMentions, lookups, responses, warnings, posted,
                   validationVars, injectVars, imageVars, graphVars>>

\* the content and its type from the format argument
Render ==
    /\ pc = "render"
    /\ IF args.format = "markdown"
       THEN /\ content' = markdownToHtml(args.message)
            /\ contentType' = "html"
            /\ calls' = Append(calls, "markdownToHtml")
       ELSE /\ content' = args.message
            /\ contentType' = "text"
            /\ UNCHANGED calls
    /\ pc' = Enter(StepAfter("render"), mentions)
    /\ UNCHANGED <<tool, args, mentions, mentionMappings, next, finalMentions,
                   lookups, responses, warnings, posted, result,
                   validationVars, injectVars, imageVars, graphVars>>

\* one iteration of for (const mention of mentions).  The channel tools test
\* mention.userId, then mention.channelId, and push nothing when both are
\* falsy; send_chat_message looks every element up.
NormaliseMention ==
    /\ pc = "normalise"
    /\ LET mention == mentions.list[next]
           after == IF next + 1 > Len(mentions.list)
                    THEN Enter(StepAfter("normalise"), mentions)
                    ELSE "normalise"
       IN  IF tool \in ChatTools \/ Truthy(mention, "userId")
           THEN \E response \in LookupOutcomes :
                    /\ lookups' = lookups \o LookupCalls(response, mention.userId)
                    /\ responses' = Append(responses, response)
                    /\ warnings' = warnings \o LookupWarnings(response, mention)
                    /\ calls' = Append(calls, "lookup")
                    /\ mentionMappings' =
                           PushMapping(mentionMappings,
                                       [mention |-> mention.mention,
                                        userId |-> mention.userId,
                                        displayName |-> ResolvedDisplayName(response, mention)])
                    /\ next' = next + 1
                    /\ pc' = after
                    /\ UNCHANGED result
           ELSE IF Truthy(mention, "channelId")
           THEN LET v == validateChannelIdFormat(mention.channelId, mention.mention)
                IN  /\ calls' = Append(calls, "validateChannelIdFormat")
                    /\ UNCHANGED <<lookups, responses>>
                    /\ IF v.threw
                       THEN /\ pc' = "done"
                            /\ result' = IsErrorResult(v.message)
                            /\ UNCHANGED <<warnings, mentionMappings, next>>
                       ELSE /\ warnings' = warnings \o v.warnings
                            /\ mentionMappings' =
                                   PushMapping(mentionMappings,
                                               [mention |-> mention.mention,
                                                channelId |-> mention.channelId,
                                                displayName |-> mention.mention])
                            /\ next' = next + 1
                            /\ pc' = after
                            /\ UNCHANGED result
           ELSE /\ next' = next + 1
                /\ pc' = after
                /\ UNCHANGED <<mentionMappings, lookups, responses, warnings, calls, result>>
    /\ UNCHANGED <<tool, args, mentions, content, contentType, finalMentions,
                   posted, validationVars, injectVars, imageVars, graphVars>>

\* variant: the content type is left as the format argument set it
InjectKeepingContentType ==
    /\ pc = "inject"
    /\ IF Len(mentionMappings) > 0
       THEN \E r \in {processMentionsInHtml(content, mentionMappings)} :
                /\ calls' = Append(calls, "processMentionsInHtml")
                /\ IF "threw" \in DOMAIN r
                   THEN /\ pc' = "done"
                        /\ result' = IsErrorResult(<<Lit(r.error)>>)
                        /\ UNCHANGED <<content, finalMentions>>
                   ELSE /\ content' = r.content
                        /\ finalMentions' = r.mentions
                        /\ pc' = Enter(StepAfter("inject"), mentions)
                        /\ UNCHANGED result
       ELSE /\ pc' = Enter(StepAfter("inject"), mentions)
            /\ UNCHANGED <<content, finalMentions, calls, result>>
    /\ UNCHANGED <<tool, args, mentions, mentionMappings, next, contentType, lookups,
                   responses, warnings, posted, validationVars, injectVars, imageVars, graphVars>>

\* if (mentionMappings.length > 0) { processMentionsInHtml ...; contentType = "html" }
Inject ==
    /\ pc = "inject"
    /\ IF Len(mentionMappings) > 0
       THEN \E r \in {processMentionsInHtml(content, mentionMappings)} :
                /\ calls' = Append(calls, "processMentionsInHtml")
                /\ IF "threw" \in DOMAIN r
                   THEN /\ pc' = "done"
                        /\ result' = IsErrorResult(<<Lit(r.error)>>)
                        /\ UNCHANGED <<content, finalMentions, contentType>>
                   ELSE /\ content' = r.content
                        /\ finalMentions' = r.mentions
                        /\ contentType' = "html"
                        /\ pc' = Enter(StepAfter("inject"), mentions)
                        /\ UNCHANGED result
       ELSE /\ pc' = Enter(StepAfter("inject"), mentions)
            /\ UNCHANGED <<content, finalMentions, contentType, calls, result>>
    /\ UNCHANGED <<tool, args, mentions, mentionMappings, next, lookups, responses,
                   warnings, posted, validationVars, injectVars, imageVars, graphVars>>

\* await client.api(...).post(messagePayload): the request is made; it
\* resolves, or rejects and the handler's catch returns an error result
Post ==
    /\ pc = "post"
    /\ posted' = Append(posted, MessagePayload(content, contentType, finalMentions, attachments))
    /\ calls' = Append(calls, "post")
    /\ \E ok \in BOOLEAN :
           result' = IF ok THEN [kind |-> "success"]
                     ELSE IsErrorResult(<<Lit("Failed to send message")>>)
    /\ pc' = StepAfter("post")
    /\ UNCHANGED <<tool, args, mentions, content, contentType, mentionMappings, next,
                   finalMentions, lookups, responses, warnings,
                   validationVars, injectVars, imageVars, graphVars>>

Next == ValidateArgs \/ GetClient \/ Render \/ NormaliseMention \/ Inject \/ Post

Spec == Init /\ [][Next]_vars

-----------------------------------------------------------------------------
(* Specification of one channel tool invocation with an image: the image   *)
(* helpers are imported from utils/attachments.js; the handler sees only   *)
(* what they return or that they throw.                                    *)

ImageUrl == <<"h", "/", "i">>
ImageData == <<"Q", "Q">>
ImageContentType == <<"i", "/", "p">>

\* the image arguments a caller sends: none, a URL, data with its type, data
\* without a type, all three
ImageArgs ==
    { [n \in {} |-> << >>],
      [imageUrl |-> ImageUrl],
      [imageData |-> ImageData, imageContentType |-> ImageContentType],
      [imageData |-> ImageData],
      [imageUrl |-> ImageUrl, imageData |-> ImageData,
       imageContentType |-> ImageContentType] }

ImageMentionInputs ==
    { [mention |-> MentionA, userId |-> UserId1],
      [mention |-> MentionB, channelId |-> WellFormedChannelId] }

ImageToolArgs ==
    {[f \in {"message", "format", "mentions"} \cup DOMAIN image |->
         IF f = "message" THEN m
         ELSE IF f = "format" THEN fmt
         ELSE IF f = "mentions" THEN ms
         ELSE image[f]] :
        m \in ToolMessages, fmt \in {"text", "markdown"},
        ms \in {Undefined} \cup {Defined(<<e>>) : e \in ImageMentionInputs},
        image \in ImageArgs}

\* await imageUrlToBase64(imageUrl): the image, null, or a rejection
DownloadOutcomes ==
    { [kind |-> "info", info |-> [data |-> ImageData, contentType |-> ImageContentType]],
      [kind |-> "null"], [kind |-> "throws"] }

\* await uploadImageAsHostedContent(...): a result with an attachment, null,
\* or a rejection
UploadOutcomes ==
    { [kind |-> "result", attachment |-> [id |-> <<"h", "1">>]],
      [kind |-> "null"], [kind |-> "throws"] }

ImageInit ==
    /\ tool \in ChannelTools
    /\ args \in ImageToolArgs
    /\ pc = "validate"
    /\ mentions = Undefined
    /\ content = << >>
    /\ contentType = "text"
    /\ mentionMappings = << >>
    /\ next = 1
    /\ finalMentions = << >>
    /\ lookups = << >>
    /\ responses = << >>
    /\ warnings = << >>
    /\ calls = << >>
    /\ posted = << >>
    /\ result = NotRun
    /\ imageInfo = NoImageInfo
    /\ attachments = << >>
    /\ imageOutcomes = << >>
    /\ ValidateIdle
    /\ InjectIdle
    /\ GraphFresh

\* the first half of if (imageUrl || imageData) { ... }: imageInfo from the
\* download of the URL, or from the data when its type is a valid image type
Image ==
    /\ pc = "image"
    /\ IF Truthy(args, "imageUrl")
       THEN \E o \in DownloadOutcomes :
                /\ calls' = Append(calls, "imageUrlToBase64")
                /\ imageOutcomes' = Append(imageOutcomes, [call |-> "imageUrlToBase64",
                                                            kind |-> o.kind])
                /\ IF o.kind = "info"
                   THEN /\ imageInfo' = [present |-> TRUE, data |-> o.info.data,
                                         contentType |-> o.info.contentType]
                        /\ pc' = StepAfter("image")
                        /\ UNCHANGED result
                   ELSE /\ pc' = "done"
                        /\ result' =
                               IF o.kind = "null"
                               THEN IsErrorResult(<<Lit("Failed to download image from URL: "),
                                                    Val(args.imageUrl)>>)
                               ELSE IsErrorResult(<<Lit("Failed to send message")>>)
                        /\ UNCHANGED imageInfo
       ELSE IF Truthy(args, "imageData") /\ Truthy(args, "imageContentType")
       THEN \E valid \in BOOLEAN :
                /\ calls' = Append(calls, "isValidImageType")
                /\ imageOutcomes' = Append(imageOutcomes,
                                           [call |-> "isValidImageType",
                                            kind |-> IF valid THEN "valid" ELSE "invalid"])
                /\ IF valid
                   THEN /\ imageInfo' = [present |-> TRUE, data |-> args.imageData,
                                         contentType |-> args.imageContentType]
                        /\ pc' = StepAfter("image")
                        /\ UNCHANGED result
                   ELSE /\ pc' = "done"
                        /\ result' = IsErrorResult(<<Lit("Unsupported image type: "),
                                                     Val(args.imageContentType)>>)
                        /\ UNCHANGED imageInfo
       ELSE /\ pc' = StepAfter(StepAfter("image"))
            /\ UNCHANGED <<calls, imageOutcomes, imageInfo, result>>
    /\ UNCHANGED <<tool, args, mentions, content, contentType, mentionMappings, next,
                   finalMentions, lookups, responses, warnings, posted, attachments,
                   validationVars, injectVars, graphVars>>

\* variant: a failed upload is not returned as an error; the message is
\* posted without the attachment
UploadIgnoringFailure ==
    /\ pc = "upload"
    /\ \E o \in UploadOutcomes :
           /\ calls' = Append(calls, "uploadImageAsHostedContent")
           /\ imageOutcomes' = Append(imageOutcomes, [call |-> "uploadImageAsHostedContent",
                                                       kind |-> o.kind])
           /\ attachments' = IF o.kind = "result" THEN Append(attachments, o.attachment)
                             ELSE attachments
           /\ pc' = StepAfter("upload")
           /\ UNCHANGED result
    /\ UNCHANGED <<tool, args, mentions, content, contentType, mentionMappings, next,
                   finalMentions, lookups, responses, warnings, posted, imageInfo,
                   validationVars, injectVars, graphVars>>

\* if (imageInfo) { uploadResult = await uploadImageAsHostedContent(...) }:
\* the attachment is pushed, or an error result is returned
Upload ==
    /\ pc = "upload"
    /\ \E o \in UploadOutcomes :
           /\ calls' = Append(calls, "uploadImageAsHostedContent")
           /\ imageOutcomes' = Append(imageOutcomes, [call |-> "uploadImageAsHostedContent",
                                                       kind |-> o.kind])
           /\ IF o.kind = "result"
              THEN /\ attachments' = Append(attachments, o.attachment)
                   /\ pc' = StepAfter("upload")
                   /\ UNCHANGED result
              ELSE /\ pc' = "done"
                   /\ result' =
                          IF o.kind = "null"
                          THEN IsErrorResult(<<Lit("Failed to upload image attachment")>>)
                          ELSE IsErrorResult(<<Lit("Failed to send message")>>)
                   /\ UNCHANGED attachments
    /\ UNCHANGED <<tool, args, mentions, content, contentType, mentionMappings, next,
                   finalMentions, lookups, responses, warnings, posted, imageInfo,
                   validationVars, injectVars, graphVars>>

ImageNext == Next \/ Image \/ Upload

SpecImage == ImageInit /\ [][ImageNext]_vars

-----------------------------------------------------------------------------
(* services/graph.ts: one GraphService instance.  Calls of getClient and   *)
(* getAuthStatus overlap: each await is a point where another call runs.   *)

GraphMethods == {"getClient", "getAuthStatus"}

\* what await fs.readFile and JSON.parse give: no file (ENOENT), a file that
\* does not parse, a record whose authenticated is not true, a record whose
\* authenticated is true
ReadOutcomes == {"ENOENT", "invalidJSON", "unauthenticated", "valid"}

\* the message of the Error thrown by getClient
NotAuthenticatedMessage ==
    << Lit("Not authenticated. Please run the authentication CLI tool first: npx teams-mcp authenticate") >>

\* isAuthenticated(): !!this.client && this.isInitialized
isAuthenticated == client.present /\ isInitialized

\* number of fs.readFile calls made so far
FileReads == Cardinality({c \in DOMAIN requests : requests[c].read})

GraphInit ==
    /\ GraphFresh
    /\ ValidateIdle
    /\ InjectIdle
    /\ ToolIdle

\* variant: initializeClient has no early return; it reads the file on
\* every call
StartCallAlwaysReading(c, method) ==
    /\ requests[c].pc = "idle"
    /\ \A d \in 1..(c - 1) : requests[d].pc # "idle"
    /\ requests' = [requests EXCEPT ![c] =
           [@ EXCEPT !.method = method,
                     !.sawInitialized = isInitialized,
                     !.after = {d \in DOMAIN requests : requests[d].pc = "done"},
                     !.read = TRUE,
                     !.pc = "read"]]
    /\ UNCHANGED <<client, msalClient, isInitialized, authInfo, created,
                   validationVars, injectVars, toolVars>>

\* a call of getClient or getAuthStatus up to its first await:
\* initializeClient returns at once when isInitialized, otherwise it starts
\* reading the authentication file
StartCall(c, method) ==
    /\ requests[c].pc = "idle"
    /\ \A d \in 1..(c - 1) : requests[d].pc # "idle"
    /\ requests' = [requests EXCEPT ![c] =
           [@ EXCEPT !.method = method,
                     !.sawInitialized = isInitialized,
                     !.after = {d \in DOMAIN requests : requests[d].pc = "done"},
                     !.read = ~isInitialized,
                     !.pc = IF isInitialized THEN "afterInit" ELSE "read"]]
    /\ UNCHANGED <<client, msalClient, isInitialized, authInfo, created,
                   validationVars, injectVars, toolVars>>

\* variant: isInitialized is set for every record that parses, also when no
\* client was created
ReadDoneLatchingAnyRecord(c) ==
    /\ requests[c].pc = "read"
    /\ \E o \in ReadOutcomes :
           /\ requests' = [requests EXCEPT ![c] = [@ EXCEPT !.outcome = o,
                                                             !.pc = "afterInit"]]
           /\ authInfo' = IF o \in {"unauthenticated", "valid"}
                          THEN Defined([authenticated |-> o = "valid"])
                          ELSE authInfo
           /\ isInitialized' = (isInitialized \/ o \in {"unauthenticated", "valid"})
           /\ IF o = "valid"
              THEN /\ created' = created + 1
                   /\ msalClient' = [present |-> TRUE, id |-> created + 1]
                   /\ client' = [present |-> TRUE, id |-> created + 1]
              ELSE UNCHANGED <<created, msalClient, client>>
    /\ UNCHANGED <<validationVars, injectVars, toolVars>>

\* the rest of initializeClient, from the completion of fs.readFile: one
\* synchronous block, or the catch
ReadDone(c) ==
    /\ requests[c].pc = "read"
    /\ \E o \in ReadOutcomes :
           /\ requests' = [requests EXCEPT ![c] = [@ EXCEPT !.outcome = o,
                                                             !.pc = "afterInit"]]
           /\ authInfo' = IF o \in {"unauthenticated", "valid"}
                          THEN Defined([authenticated |-> o = "valid"])
                          ELSE authInfo
           /\ IF o = "valid"
              THEN /\ created' = created + 1
                   /\ msalClient' = [present |-> TRUE, id |-> created + 1]
                   /\ client' = [present |-> TRUE, id |-> created + 1]
                   /\ isInitialized' = TRUE
              ELSE UNCHANGED <<created, msalClient, client, isInitialized>>
    /\ UNCHANGED <<validationVars, injectVars, toolVars>>

\* variant: getClient returns this.client without testing it
AfterInitReturningUndefined(c) ==
    /\ requests[c].pc = "afterInit"
    /\ requests' = [requests EXCEPT ![c] =
           IF @.method = "getClient"
           THEN [@ EXCEPT !.pc = "done", !.result = [kind |-> "client", client |-> client]]
           ELSE IF ~client.present
           THEN [@ EXCEPT !.pc = "done",
                          !.result = [kind |-> "status", isAuthenticated |-> FALSE]]
           ELSE [@ EXCEPT !.pc = "me"]]
    /\ UNCHANGED <<client, msalClient, isInitialized, authInfo, created,
                   validationVars, injectVars, toolVars>>

\* the statements after await this.initializeClient(): getClient throws or
\* returns this.client; getAuthStatus returns unauthenticated or requests /me
AfterInit(c) ==
    /\ requests[c].pc = "afterInit"
    /\ requests' = [requests EXCEPT ![c] =
           IF ~client.present
           THEN IF @.method = "getClient"
                THEN [@ EXCEPT !.pc = "done",
                               !.result = [kind |-> "rejected",
                                           message |-> NotAuthenticatedMessage]]
                ELSE [@ EXCEPT !.pc = "done",
                               !.result = [kind |-> "status", isAuthenticated |-> FALSE]]
           ELSE IF @.method = "getClient"
                THEN [@ EXCEPT !.pc = "done",
                               !.result = [kind |-> "client", client |-> client]]
                ELSE [@ EXCEPT !.pc = "me"]]
    /\ UNCHANGED <<client, msalClient, isInitialized, authInfo, created,
                   validationVars, injectVars, toolVars>>

\* await this.client.api("/me").get(): resolves, or rejects and the catch
\* returns unauthenticated
MeDone(c) ==
    /\ requests[c].pc = "me"
    /\ \E ok \in BOOLEAN :
           requests' = [requests EXCEPT ![c] =
               [@ EXCEPT !.pc = "done",
                         !.me = IF ok THEN "resolved" ELSE "rejected",
                         !.result = [kind |-> "status", isAuthenticated |-> ok]]]
    /\ UNCHANGED <<client, msalClient, isInitialized, authInfo, created,
                   validationVars, injectVars, toolVars>>

GraphNext ==
    \E c \in 1..MaxCalls :
        \/ \E method \in GraphMethods : StartCall(c, method)
        \/ ReadDone(c)
        \/ AfterInit(c)
        \/ MeDone(c)

SpecGraph == GraphInit /\ [][GraphNext]_vars

-----------------------------------------------------------------------------
(* Specification of every place that constructs mention mappings: a run of *)
(* the validators, or one send tool invocation.                            *)

PipelineInit == ValidateInit \/ Init

\* the validators run on a raw value, the handler steps in an invocation
PipelineNext == (tool = "none" /\ ValidateNext) \/ (tool # "none" /\ Next)

SpecPipeline == PipelineInit /\ [][PipelineNext]_vars

-----------------------------------------------------------------------------
(* Claims about validation (checked under SpecValidate) *)

SchemaRan == "schema" \in vRan
LibraryRan == "library" \in vRan

\* the entity-id fields of a raw input that are present and non-empty
IdsGiven(m) == {f \in {"userId", "channelId"} : f \in DOMAIN m /\ m[f] # << >>}

XorViolations(list) == {i \in DOMAIN list : Cardinality(IdsGiven(list[i])) # 1}

\* C1: the schema accepts a raw mentions value if and only if it is absent or
\* every element has exactly one of userId / channelId present and non-empty;
\* in particular the empty list is accepted and one bad element fails the list.
C1_SchemaAcceptsIffExactlyOneId ==
    SchemaRan =>
        /\ vParsed.success <=>
              (~vInputs.present \/ XorViolations(vInputs.list) = {})
        /\ vParsed.success => vParsed.data = vInputs

\* C1 witness: a two-element list whose first element is valid and whose
\* second element has only an empty-string userId was rejected.
C1_Witness ==
    /\ SchemaRan
    /\ vInputs.present
    /\ Len(vInputs.list) = 2
    /\ IdsGiven(vInputs.list[1]) = {"userId"}
    /\ "userId" \in DOMAIN vInputs.list[2]
    /\ "channelId" \notin DOMAIN vInputs.list[2]
    /\ vInputs.list[2].userId = << >>
    /\ ~vParsed.success

\* C2 (as claimed): the library function throws exactly when the schema
\* rejects the same list.
C2_LibraryThrowsIffSchemaRejects ==
    (SchemaRan /\ LibraryRan) => (vConverted.threw <=> ~vParsed.success)

\* C3: if any element of the list has neither a userId nor a channelId, the
\* library call throws and returns no mappings, whatever precedes the element.
C3_NeitherIdThrowsNoMappings ==
    (LibraryRan /\ \E i \in DOMAIN vInputs.list : IdsGiven(vInputs.list[i]) = {}) =>
        /\ vConverted.threw
        /\ "value" \notin DOMAIN vConverted

\* C3 witness: a valid element followed by an element with neither id threw.
C3_Witness ==
    /\ LibraryRan
    /\ Len(vInputs.list) = 2
    /\ IdsGiven(vInputs.list[1]) = {"userId"}
    /\ DOMAIN vInputs.list[2] = {"mention"}
    /\ vConverted.threw

\* C4 (as claimed): on either path, a failed validation raises an error that
\* names the mention text of an offending element.
C4_EveryFailureNamesOffendingToken ==
    /\ (LibraryRan /\ vConverted.threw) =>
           \E i \in XorViolations(vInputs.list) :
               NamesToken(vConverted.message, vInputs.list[i].mention)
    /\ (SchemaRan /\ ~vParsed.success) =>
           \E i \in XorViolations(vInputs.list) :
               NamesToken(vParsed.message, vInputs.list[i].mention)

\* the first element of a list that has no non-empty id
FirstWithoutId(list) ==
    CHOOSE i \in DOMAIN list :
        /\ IdsGiven(list[i]) = {}
        /\ \A j \in 1..(i - 1) : IdsGiven(list[j]) # {}

\* C4 (amended): when the library function throws, the error names the mention
\* text of the first element that has neither id, and of no other text; when
\* the schema rejects, its message is a fixed text that names no mention text.
C4_LibraryErrorNamesFirstOffender ==
    /\ (LibraryRan /\ vConverted.threw) =>
           \A t \in RawMentionTexts :
               NamesToken(vConverted.message, t)
                   <=> t = vInputs.list[FirstWithoutId(vInputs.list)].mention
    /\ (SchemaRan /\ ~vParsed.success) =>
           \A t \in RawMentionTexts : ~NamesToken(vParsed.message, t)

\* C4 witness: both validators failed on a list of two elements with
\* different mention texts whose second element is the one without an id.
C4_Witness ==
    /\ SchemaRan /\ LibraryRan
    /\ Len(vInputs.list) = 2
    /\ vInputs.list[1].mention # vInputs.list[2].mention
    /\ IdsGiven(vInputs.list[1]) = {"channelId"}
    /\ IdsGiven(vInputs.list[2]) = {}
    /\ vConverted.threw
    /\ ~vParsed.success

\* C5: whenever the schema rejects a list for an element with both ids or
\* with neither, the message names both field names, userId and channelId.
C5_SchemaMessageNamesBothFields ==
    (SchemaRan /\ vInputs.present /\ XorViolations(vInputs.list) # {}) =>
        /\ ~vParsed.success
        /\ NamesField(vParsed.message, "userId")
        /\ NamesField(vParsed.message, "channelId")

\* C5 witness: a list holding an element with both ids was rejected.
C5_Witness ==
    /\ SchemaRan
    /\ vInputs.present
    /\ \E i \in DOMAIN vInputs.list : IdsGiven(vInputs.list[i]) = {"userId", "channelId"}
    /\ ~vParsed.success

-----------------------------------------------------------------------------
(* Claims about markup injection (checked under SpecInject) *)

StartsWith(s, p) == Len(p) <= Len(s) /\ SubSeq(s, 1, Len(p)) = p

EndsWith(s, p) == Len(p) <= Len(s) /\ SubSeq(s, Len(s) - Len(p) + 1, Len(s)) = p

\* the text sub stands in s at position pos
OccursAt(s, pos, sub) ==
    pos + Len(sub) - 1 <= Len(s) /\ SubSeq(s, pos, pos + Len(sub) - 1) = sub

\* number of occurrences of the text sub in s, counted left to right without
\* overlap
RECURSIVE CountOccurrencesFrom(_, _, _)
CountOccurrencesFrom(s, sub, pos) ==
    IF pos > Len(s) THEN 0
    ELSE IF OccursAt(s, pos, sub)
    THEN 1 + CountOccurrencesFrom(s, sub, pos + Len(sub))
    ELSE CountOccurrencesFrom(s, sub, pos + 1)

CountOccurrences(s, sub) == CountOccurrencesFrom(s, sub, 1)

QuotedForm(token) == <<"@", "\"">> \o token \o <<"\"">>
BareForm(token) == <<"@">> \o token

\* number of places of s where the token stands as @"token" or @token,
\* counted left to right without overlap, the quoted form first
RECURSIVE CountTokenFrom(_, _, _)
CountTokenFrom(s, token, pos) ==
    IF pos > Len(s) THEN 0
    ELSE IF OccursAt(s, pos, QuotedForm(token))
    THEN 1 + CountTokenFrom(s, token, pos + Len(QuotedForm(token)))
    ELSE IF OccursAt(s, pos, BareForm(token))
    THEN 1 + CountTokenFrom(s, token, pos + Len(BareForm(token)))
    ELSE CountTokenFrom(s, token, pos + 1)

CountToken(s, token) == CountTokenFrom(s, token, 1)

\* position of the first "@" of s, 0 when there is none
FirstAt(s) ==
    IF \E i \in DOMAIN s : s[i] = "@"
    THEN CHOOSE i \in DOMAIN s : s[i] = "@" /\ \A j \in 1..(i - 1) : s[j] # "@"
    ELSE 0

\* C7: for a list of N mappings the call returns exactly N records; record i
\* has id i (zero-based) and describes mapping i: its display name and its
\* user or channel id, wherever and whether its mention text occurs.
C7_RecordsFollowInputOrder ==
    injected =>
        /\ Len(out.mentions) = Len(mappings)
        /\ \A i \in DOMAIN mappings :
               LET r == out.mentions[i]
                   m == mappings[i]
               IN  /\ r.id = i - 1
                   /\ r.mentionText = m.displayName
                   /\ "userId" \in DOMAIN m =>
                          r.mentioned = [user |-> [id |-> m.userId]]
                   /\ "channelId" \in DOMAIN m =>
                          /\ "conversation" \in DOMAIN r.mentioned
                          /\ r.mentioned.conversation.id = m.channelId

\* C7 witness: the second mapping's mention text stands before the first
\* one's in the content, and a third text in the content matches nothing.
C7_Witness ==
    /\ injected
    /\ mappings = <<UserA, UserB>>
    /\ html = <<"@", "b", "@", "a", " ">>
    /\ Len(out.mentions) = 2
    /\ out.mentions[1].id = 0
    /\ out.mentions[2].mentioned.user.id = UserId2

\* C8: with an empty mapping list the content is returned unchanged and the
\* record list is empty.
C8_EmptyListIsNoOp ==
    (injected /\ mappings = << >>) =>
        /\ out.content = html
        /\ out.mentions = << >>

\* C8 witness: a content with mention texts went through an empty list.
C8_Witness ==
    /\ injected
    /\ mappings = << >>
    /\ html = <<"@", "a", "@", "\"", "a", " ", "a", "\"">>
    /\ out.content = html

\* C9 (as claimed, stated for lists of pairwise distinct mention texts): if
\* a mapping's mention text occurs K > 0 times in the content, the output
\* holds K spans with that mapping's id, no occurrence of the mention text
\* is left, and exactly one record carries the id.
C9_KOccurrencesGiveKSpans ==
    (injected /\ \A i, j \in DOMAIN mappings :
                     i # j => mappings[i].mention # mappings[j].mention) =>
        \A i \in DOMAIN mappings :
            LET token == mappings[i].mention
                K == CountToken(html, token)
            IN  K > 0 =>
                    /\ CountOccurrences(out.content, AtTemplate(i - 1, mappings[i])) = K
                    /\ CountToken(out.content, token) = 0
                    /\ Cardinality({j \in DOMAIN out.mentions :
                                        out.mentions[j].id = i - 1}) = 1

-----------------------------------------------------------------------------
(* Claims about the send tools (checked under Spec) *)

\* C6 (as claimed): every send tool rejects a mentions list in which some
\* element has no non-empty entity id or has both ids: for such a list no
\* directory lookup is made, nothing is posted, and the caller gets the
\* schema's rejection.
C6_EveryToolRejectsXorViolation ==
    (args.mentions.present /\ XorViolations(args.mentions.list) # {}) =>
        /\ lookups = << >>
        /\ posted = << >>
        /\ pc = "done" => result.kind = "rejected"

-----------------------------------------------------------------------------
(* Claims about the variant dispatch (checked under SpecInject) *)

\* the record the Graph API expects for a mapping at a list position
ExpectedUserRecord(m, i) ==
    [id |-> i - 1, mentionText |-> m.displayName, mentioned |-> [user |-> [id |-> m.userId]]]

ExpectedChannelRecord(m, i) ==
    [id |-> i - 1, mentionText |-> m.displayName,
     mentioned |-> [conversation |-> [id |-> m.channelId, displayName |-> m.displayName,
                                      conversationIdentityType |-> "channel"]]]

\* C11: the record emitted for a mapping that carries a user id is exactly
\* {id, mentionText: label, mentioned: {user: {id: userId}}}; the record for a
\* mapping that carries a channel id is exactly {id, mentionText: label,
\* mentioned: {conversation: {id: channelId, displayName: label,
\* conversationIdentityType: "channel"}}}; every record has one target, never
\* both and never none.
C11_RecordVariantFollowsIdKind ==
    injected =>
        \A i \in DOMAIN out.mentions :
            /\ i \in DOMAIN mappings
            /\ "userId" \in DOMAIN mappings[i] =>
                   out.mentions[i] = ExpectedUserRecord(mappings[i], i)
            /\ "channelId" \in DOMAIN mappings[i] =>
                   out.mentions[i] = ExpectedChannelRecord(mappings[i], i)
            /\ DOMAIN out.mentions[i].mentioned \in {{"user"}, {"conversation"}}

\* a user mapping followed by a channel mapping, both turned into records
C11_Witness ==
    /\ injected
    /\ mappings = <<UserA, ChannelAA>>
    /\ Len(out.mentions) = 2
    /\ "user" \in DOMAIN out.mentions[1].mentioned
    /\ "conversation" \in DOMAIN out.mentions[2].mentioned

-----------------------------------------------------------------------------
(* Claims about the discriminators (checked under SpecPipeline) *)

\* C12: isUserMentionMapping and isChannelMentionMapping are mutually
\* exclusive and jointly exhaustive on every mapping the pipeline constructs:
\* exactly one of them holds of every mapping returned by
\* convertMentionInputsToMappings and of every mapping a send tool builds.
C12_GuardsPartitionConstructedMappings ==
    /\ (LibraryRan /\ ~vConverted.threw) =>
           \A i \in DOMAIN vConverted.value :
               isUserMentionMapping(vConverted.value[i])
                   # isChannelMentionMapping(vConverted.value[i])
    /\ \A i \in DOMAIN mentionMappings :
           isUserMentionMapping(mentionMappings[i])
               # isChannelMentionMapping(mentionMappings[i])

\* the library converted an input that carries both ids into a mapping of
\* one kind only
C12_Witness ==
    /\ LibraryRan
    /\ Len(vInputs.list) = 1
    /\ IdsGiven(vInputs.list[1]) = {"userId", "channelId"}
    /\ ~vConverted.threw
    /\ isUserMentionMapping(vConverted.value[1])
    /\ ~isChannelMentionMapping(vConverted.value[1])

-----------------------------------------------------------------------------
(* Claims about one send tool invocation (checked under Spec) *)

\* the position in responses of the lookup made for the i-th mapping
LookupIndexOf(i) ==
    Cardinality({j \in 1..i : "userId" \in DOMAIN mentionMappings[j]})

\* C13: the label of every user reference is the display name the directory
\* returned when the lookup resolved with a non-empty name, and the
\* reference's own token when the lookup threw or resolved without a name;
\* every other reference keeps the label its own lookup gave it, and an
\* invocation in which a lookup was made never ends before the injection.
C13_LabelIsDirectoryNameOrToken ==
    /\ \A i \in DOMAIN mentionMappings :
           "userId" \in DOMAIN mentionMappings[i] =>
               LET r == responses[LookupIndexOf(i)]
               IN  mentionMappings[i].displayName =
                       IF r.kind = "resolves" /\ r.displayName # << >>
                       THEN r.displayName
                       ELSE mentions.list[i].mention
    /\ (pc = "done" /\ responses # << >>) => "processMentionsInHtml" \in Range(calls)

\* a failed lookup followed by a successful one, and the message was sent
C13_Witness ==
    /\ pc = "done"
    /\ result.kind = "success"
    /\ Len(responses) = 2
    /\ responses[1].kind = "throws"
    /\ responses[2] = [kind |-> "resolves", displayName |-> DirectoryName]
    /\ mentionMappings[1].displayName = mentions.list[1].mention
    /\ mentionMappings[2].displayName = DirectoryName
    /\ mentionMappings[2].displayName # mentions.list[2].mention
    /\ Len(posted) = 1

\* the elements of the parsed list for which a channel tool takes the
\* channel branch
ChannelElements ==
    IF tool \in ChannelTools /\ mentions.present
    THEN {i \in DOMAIN mentions.list :
              ~Truthy(mentions.list[i], "userId") /\ Truthy(mentions.list[i], "channelId")}
    ELSE {}

\* C14: the mapping built for a channel reference has the caller's token as
\* label and the caller's channel id unchanged; an id that is not of the shape
\* 19:...@thread.tacv2 leaves one warning and nothing else: the reference is
\* pushed, injected and posted with that id, and the invocation ends with the
\* post.
C14_ChannelIdShapeOnlyWarns ==
    /\ \A i \in ChannelElements :
           i < next =>
               /\ i \in DOMAIN mentionMappings
               /\ mentionMappings[i] = [mention |-> mentions.list[i].mention,
                                        channelId |-> mentions.list[i].channelId,
                                        displayName |-> mentions.list[i].mention]
               /\ (mentions.list[i].channelId = MalformedChannelId) <=>
                      (\E w \in Range(warnings) :
                           /\ NamesToken(w, mentions.list[i].channelId)
                           /\ NamesToken(w, mentions.list[i].mention))
    /\ (pc = "done" /\ "validateChannelIdFormat" \in Range(calls)) =>
           /\ "processMentionsInHtml" \in Range(calls)
           /\ Len(posted) = 1
           /\ \A i \in ChannelElements :
                  posted[1].mentions[i].mentioned.conversation.id = mentions.list[i].channelId

\* a channel reference with an id of another shape was warned about, injected
\* and posted
C14_Witness ==
    /\ pc = "done"
    /\ result.kind = "success"
    /\ Len(mentionMappings) = 1
    /\ "channelId" \in DOMAIN mentionMappings[1]
    /\ mentionMappings[1].channelId = MalformedChannelId
    /\ Len(warnings) = 1
    /\ posted[1].mentions[1].mentioned.conversation.id = MalformedChannelId
    /\ posted[1].mentions[1].mentionText = mentions.list[1].mention

\* C15: every payload a send tool posts has no mentions field when the caller
\* supplied no references (no list, or an empty one); a mentions field, when
\* present, is not empty, and the body's contentType is then "html", also for
\* format "text".
C15_MentionsImplyHtmlBody ==
    \A k \in DOMAIN posted :
        /\ (~args.mentions.present \/ args.mentions.list = << >>) =>
               "mentions" \notin DOMAIN posted[k]
        /\ "mentions" \in DOMAIN posted[k] =>
               /\ Len(posted[k].mentions) > 0
               /\ posted[k].body.contentType = "html"

\* a payload with mentions posted for a caller who asked for format "text"
C15_Witness ==
    /\ Len(posted) = 1
    /\ args.format = "text"
    /\ "mentions" \in DOMAIN posted[1]
    /\ Len(posted[1].mentions) = 2
    /\ posted[1].body.contentType = "html"

\* the stage of the pipeline a call belongs to
StageOf(call) ==
    CASE call = "getClient" -> 0
      [] call = "markdownToHtml" -> 1
      [] call \in {"lookup", "validateChannelIdFormat"} -> 2
      [] call = "processMentionsInHtml" -> 3
      [] call = "post" -> 4

\* C16: the calls of one invocation are made in the order render, normalise,
\* inject, post: a call of a later stage never precedes a call of an earlier
\* one, the renderer, the injector and the post run at most once, and when the
\* rendering step is about to run nothing has been injected yet.
C16_RenderNormaliseInjectPost ==
    /\ \A i, j \in DOMAIN calls :
           i < j =>
               /\ StageOf(calls[i]) <= StageOf(calls[j])
               /\ StageOf(calls[i]) = StageOf(calls[j]) => StageOf(calls[i]) = 2
    /\ pc = "render" =>
           /\ "processMentionsInHtml" \notin Range(calls)
           /\ finalMentions = << >>

\* an invocation that rendered, looked a user up, injected and posted
C16_Witness ==
    calls = <<"getClient", "markdownToHtml", "lookup", "processMentionsInHtml", "post">>

\* the id field a mapping carries, and the one a posted record stands for
IdFieldOf(mapping) == IF "userId" \in DOMAIN mapping THEN "userId" ELSE "channelId"

TargetFieldOf(record) ==
    IF "user" \in DOMAIN record.mentioned THEN "userId" ELSE "channelId"

\* the entity id a posted record points at
TargetIdOf(record) ==
    IF "user" \in DOMAIN record.mentioned THEN record.mentioned.user.id
    ELSE record.mentioned.conversation.id

\* C17: for a mentions list the tool's schema accepts, the mappings built so
\* far are, in order, those of the first elements of the caller's list; the
\* list handed to the injector has the length and order of the caller's list
\* whatever the lookups did, and the record posted for the i-th element
\* (counted from 0) has id i and that element's entity id.
C17_NormalisedListKeepsCallerOrder ==
    mentions.present =>
        /\ Len(mentionMappings) = next - 1
        /\ \A i \in DOMAIN mentionMappings :
               /\ mentionMappings[i].mention = args.mentions.list[i].mention
               /\ IdFieldOf(mentionMappings[i]) \in DOMAIN args.mentions.list[i]
               /\ mentionMappings[i][IdFieldOf(mentionMappings[i])]
                      = args.mentions.list[i][IdFieldOf(mentionMappings[i])]
        /\ "processMentionsInHtml" \in Range(calls) =>
               Len(mentionMappings) = Len(args.mentions.list)
        /\ \A k \in DOMAIN posted :
               "mentions" \in DOMAIN posted[k] =>
                   /\ Len(posted[k].mentions) = Len(args.mentions.list)
                   /\ \A i \in DOMAIN posted[k].mentions :
                          /\ posted[k].mentions[i].id = i - 1
                          /\ TargetFieldOf(posted[k].mentions[i]) \in DOMAIN args.mentions.list[i]
                          /\ TargetIdOf(posted[k].mentions[i])
                                 = args.mentions.list[i][TargetFieldOf(posted[k].mentions[i])]

\* a channel tool posted a user reference whose lookup failed followed by a
\* channel reference, in the caller's order
C17_Witness ==
    /\ tool \in ChannelTools
    /\ Len(posted) = 1
    /\ args.mentions.present
    /\ Len(args.mentions.list) = 2
    /\ responses = <<[kind |-> "throws"]>>
    /\ posted[1].mentions[1].id = 0
    /\ posted[1].mentions[1].mentioned.user.id = args.mentions.list[1].userId
    /\ posted[1].mentions[2].id = 1
    /\ posted[1].mentions[2].mentioned.conversation.id = args.mentions.list[2].channelId

\* the elements among the first n of the parsed list that the handler treats
\* as user references: every element in send_chat_message, the elements with
\* a non-empty userId in the channel tools
UserElements(n) ==
    IF mentions.present
    THEN {i \in 1..n : tool \in ChatTools \/ Truthy(mentions.list[i], "userId")}
    ELSE {}

\* the k-th of them, in list order
NthUserElement(n, k) ==
    CHOOSE i \in UserElements(n) : Cardinality({j \in UserElements(n) : j <= i}) = k

\* C18: the directory has been asked exactly once for each user reference the
\* loop has gone past, in list order and whether the answer was a name or a
\* failure, and not at all for the channel references.
C18_OneLookupPerUserReference ==
    /\ Len(lookups) = Cardinality(UserElements(next - 1))
    /\ Len(responses) = Len(lookups)
    /\ \A k \in DOMAIN lookups :
           lookups[k] = mentions.list[NthUserElement(next - 1, k)].userId
    /\ \A i \in ChannelElements : i \notin UserElements(next - 1)

\* a channel tool went past a user reference whose lookup failed and a
\* channel reference, and asked the directory once
C18_Witness ==
    /\ tool \in ChannelTools
    /\ pc = "done"
    /\ mentions.present
    /\ Len(mentions.list) = 2
    /\ ChannelElements = {2}
    /\ responses = <<[kind |-> "throws"]>>
    /\ lookups = <<UserId1>>
    /\ Len(posted) = 1

-----------------------------------------------------------------------------
(* Claims about unmatched tokens (checked under SpecInject) *)

\* Whether, from mapping i on, every replacement step that is applied to a
\* content (before) in which its mention text stands nowhere, bare or quoted,
\* leaves that content as it was.
RECURSIVE UnmatchedStepsKeepContent(_, _)
UnmatchedStepsKeepContent(i, before) ==
    i > Len(mappings)
    \/ \E after \in {ForEachCallback([content |-> before, mentions |-> << >>],
                                     mappings[i], i - 1).content} :
           /\ CountToken(before, mappings[i].mention) = 0 => after = before
           /\ UnmatchedStepsKeepContent(i + 1, after)

\* the mappings whose mention text stands nowhere in the content handed to
\* the call
UnmatchedInHtml == {i \in DOMAIN mappings : CountToken(html, mappings[i].mention) = 0}

\* C19: the call never throws; for a mapping whose mention text stands
\* nowhere, bare or quoted, in the content its replacement step is applied
\* to, that step leaves the content as it was, and the record of the mapping
\* is emitted all the same, with the mapping's index as id.
C19_UnmatchedTokenIsNoError ==
    injected =>
        /\ "threw" \notin DOMAIN out
        /\ UnmatchedStepsKeepContent(1, html)
        /\ UnmatchedInHtml = DOMAIN mappings => out.content = html
        /\ \A i \in UnmatchedInHtml :
               /\ i \in DOMAIN out.mentions
               /\ out.mentions[i].id = i - 1
               /\ out.mentions[i].mentionText = mappings[i].displayName

\* the only mapping's mention text is not in the content: the content comes
\* back unchanged, with the record
C19_Witness ==
    /\ injected
    /\ mappings = <<UserB>>
    /\ html = <<"@", "a", " ", "a">>
    /\ out.content = html
    /\ Len(out.mentions) = 1
    /\ out.mentions[1].id = 0

-----------------------------------------------------------------------------
(* Claims about literal matching (checked under SpecLiteral) *)

\* s with every place where the token stands as @"token" or @token, read left
\* to right, replaced by span, and every other character kept
RECURSIVE LiteralReplaceFrom(_, _, _, _)
LiteralReplaceFrom(s, token, span, pos) ==
    IF pos > Len(s) THEN << >>
    ELSE IF OccursAt(s, pos, QuotedForm(token))
    THEN span \o LiteralReplaceFrom(s, token, span, pos + Len(QuotedForm(token)))
    ELSE IF OccursAt(s, pos, BareForm(token))
    THEN span \o LiteralReplaceFrom(s, token, span, pos + Len(BareForm(token)))
    ELSE <<s[pos]>> \o LiteralReplaceFrom(s, token, span, pos + 1)

\* C20: for one mapping, whatever characters its mention text holds, building
\* the pattern does not throw and the text replaced is exactly the text that
\* is character for character @"token" or @token: a text that differs from
\* the token in one character or in case is left as it is.
C20_TokenMatchIsLiteral ==
    (injected /\ Len(mappings) = 1) =>
        /\ "threw" \notin DOMAIN out
        /\ out.content =
               LiteralReplaceFrom(html, mappings[1].mention,
                                  AtOpen(0) \o mappings[1].displayName \o AtClose, 1)

\* the text @axb stays and the text @a.b is replaced for the token a.b
C20_Witness ==
    /\ injected
    /\ mappings[1].mention = <<"a", ".", "b">>
    /\ html = <<"@", "a", "x", "b", "@", "a", ".", "b">>
    /\ out.content = <<"@", "a", "x", "b">> \o AtOpen(0) \o <<"N">> \o AtClose

-----------------------------------------------------------------------------
(* Claims about duplicate and overlapping mappings (checked under          *)
(* SpecInject)                                                             *)

\* C21 (as claimed): when the same mention text is at positions i < j of the
\* list and stands in the content, the two records carry the ids of i and of
\* j, and the spans in the content carry the id of j, none the id of i.
C21_LaterDuplicateOverwritesSpans ==
    injected =>
        \A i, j \in DOMAIN mappings :
            (i < j /\ mappings[i].mention = mappings[j].mention
                   /\ CountToken(html, mappings[i].mention) > 0) =>
                /\ out.mentions[i].id = i - 1
                /\ out.mentions[j].id = j - 1
                /\ CountOccurrences(out.content, AtOpen(j - 1)) > 0
                /\ CountOccurrences(out.content, AtOpen(i - 1)) = 0

-----------------------------------------------------------------------------
(* Claims about display names (checked under SpecLabels) *)

\* C22 (as claimed): whatever characters the display name holds, every
\* record's mentionText is the display name of its mapping, and for one
\* mapping every replaced occurrence becomes exactly <at id="0">, the display
\* name character for character, </at>.
C22_SubstitutionIsLiteral ==
    injected =>
        /\ \A i \in DOMAIN mappings : out.mentions[i].mentionText = mappings[i].displayName
        /\ Len(mappings) = 1 =>
               out.content =
                   LiteralReplaceFrom(html, mappings[1].mention,
                                      AtOpen(0) \o mappings[1].displayName \o AtClose, 1)

-----------------------------------------------------------------------------
(* Claims about the conversion of accepted lists (checked under SpecValidate) *)

\* C23: for every list the library function accepts, the mappings have the
\* length and the order of the inputs, mention and displayName are both the
\* input's mention text, the mapping is a user mapping exactly when the input
\* had a non-empty userId, and a channel mapping exactly when the input had
\* only a non-empty channelId.
C23_AcceptedListConvertsElementwise ==
    (LibraryRan /\ ~vConverted.threw) =>
        /\ Len(vConverted.value) = Len(vInputs.list)
        /\ \A i \in DOMAIN vInputs.list :
               LET input == vInputs.list[i]
                   mapping == vConverted.value[i]
               IN  /\ mapping.mention = input.mention
                   /\ mapping.displayName = input.mention
                   /\ isUserMentionMapping(mapping) <=> "userId" \in IdsGiven(input)
                   /\ isChannelMentionMapping(mapping) <=> IdsGiven(input) = {"channelId"}
                   /\ isUserMentionMapping(mapping) => mapping.userId = input.userId
                   /\ isChannelMentionMapping(mapping) => mapping.channelId = input.channelId

\* C23 witness: a two-element list with different mention texts, the first
\* element holding both ids and the second only a channelId, was converted.
C23_Witness ==
    /\ LibraryRan
    /\ ~vConverted.threw
    /\ Len(vInputs.list) = 2
    /\ vInputs.list[1].mention # vInputs.list[2].mention
    /\ IdsGiven(vInputs.list[1]) = {"userId", "channelId"}
    /\ IdsGiven(vInputs.list[2]) = {"channelId"}
    /\ isUserMentionMapping(vConverted.value[1])
    /\ isChannelMentionMapping(vConverted.value[2])

-----------------------------------------------------------------------------
(* Claims about the order of the list (checked under SpecInject) *)

\* the content with the id of every opening tag of the first n ids left out
RECURSIVE StripSpanIdsFrom(_, _, _)
StripSpanIdsFrom(s, pos, n) ==
    IF pos > Len(s) THEN << >>
    ELSE IF \E k \in 0..(n - 1) : OccursAt(s, pos, AtOpen(k))
    THEN LET k == CHOOSE k \in 0..(n - 1) : OccursAt(s, pos, AtOpen(k))
         IN  <<"<", "a", "t", ">">> \o StripSpanIdsFrom(s, pos + Len(AtOpen(k)), n)
    ELSE <<s[pos]>> \o StripSpanIdsFrom(s, pos + 1, n)

StripSpanIds(s, n) == StripSpanIdsFrom(s, 1, n)

\* C24 (as claimed): for two mappings with different mention texts the places
\* replaced and the display name put at each place are the same for both
\* orders of the list; only the ids differ.
C24_ListOrderOnlyChangesIds ==
    (injected /\ Len(mappings) = 2 /\ mappings[1].mention # mappings[2].mention) =>
        StripSpanIds(out.content, 2) =
            StripSpanIds(processMentionsInHtml(html, <<mappings[2], mappings[1]>>).content, 2)

-----------------------------------------------------------------------------
(* Claims about spans inside spans (checked under SpecLabels) *)

\* an opening tag of one of the first n ids stands inside an open span of s
RECURSIVE HasNestedSpanFrom(_, _, _, _)
HasNestedSpanFrom(s, pos, n, open) ==
    IF pos > Len(s) THEN FALSE
    ELSE IF \E k \in 0..(n - 1) : OccursAt(s, pos, AtOpen(k))
    THEN open \/ LET k == CHOOSE k \in 0..(n - 1) : OccursAt(s, pos, AtOpen(k))
                 IN  HasNestedSpanFrom(s, pos + Len(AtOpen(k)), n, TRUE)
    ELSE IF OccursAt(s, pos, AtClose)
    THEN HasNestedSpanFrom(s, pos + Len(AtClose), n, FALSE)
    ELSE HasNestedSpanFrom(s, pos + 1, n, open)

HasNestedSpan(s, n) == HasNestedSpanFrom(s, 1, n, FALSE)

\* C30 (as claimed): the returned content never holds an injected span inside
\* another injected span: a later replacement never rewrites text that an
\* earlier replacement inserted.
C30_NoSpanInsideSpan ==
    injected => ~HasNestedSpan(out.content, Len(mappings))

-----------------------------------------------------------------------------
(* Claims about the image steps of the channel tools (checked under        *)
(* SpecImage)                                                              *)

\* an image helper answered with a failure: the download returned null or
\* threw, the type is not a valid image type, the upload returned null or
\* threw
ImageFailed ==
    \E k \in DOMAIN imageOutcomes : imageOutcomes[k].kind \in {"null", "throws", "invalid"}

\* C29: in send_channel_message and reply_to_channel_message the message is
\* posted at most once per invocation and never after an image failure, which
\* ends the invocation with an isError result; a handler that has ended has
\* returned a success or an isError result, success only after its one post.
C29_PostAtMostOnceNeverAfterImageFailure ==
    /\ Len(posted) <= 1
    /\ ImageFailed =>
           /\ posted = << >>
           /\ pc = "done"
           /\ result.kind = "error"
           /\ result.isError
    /\ posted # << >> => (pc = "done" /\ calls[Len(calls)] = "post")
    /\ (pc = "done" /\ "getClient" \in Range(calls)) =>
           /\ result.kind \in {"success", "error"}
           /\ result.kind = "error" => result.isError
           /\ result.kind = "success" => Len(posted) = 1

\* C29 witness: the image was downloaded, its upload returned null, and the
\* invocation ended with an isError result and no post.
C29_Witness ==
    /\ tool \in ChannelTools
    /\ pc = "done"
    /\ Len(imageOutcomes) = 2
    /\ imageOutcomes[1] = [call |-> "imageUrlToBase64", kind |-> "info"]
    /\ imageOutcomes[2] = [call |-> "uploadImageAsHostedContent", kind |-> "null"]
    /\ result.isError
    /\ posted = << >>

-----------------------------------------------------------------------------
(* Claims about GraphService (checked under SpecGraph) *)

Started(c) == requests[c].pc # "idle"
Finished(c) == requests[c].pc = "done"

\* some read so far gave a record whose authenticated is true
AnyLoaded == \E c \in DOMAIN requests : requests[c].outcome = "valid"

\* every read completed so far gave such a record
AllReadsValid == \A c \in DOMAIN requests : requests[c].outcome \in {"none", "valid"}

\* no call was started after another had completed
StartedConcurrently == \A c \in DOMAIN requests : requests[c].after = {}

\* C25: getClient rejects with the "Not authenticated" error when no usable
\* authentication record was loaded (no file, a file that does not parse, a
\* record not authenticated) and returns the created client otherwise;
\* isAuthenticated() is true exactly when a client was created and the flag
\* is set: false on a fresh instance and as long as every load has failed.
C25_GetClientRejectsUnlessLoaded ==
    /\ isAuthenticated <=> (created > 0 /\ isInitialized)
    /\ isAuthenticated <=> AnyLoaded
    /\ \A c \in DOMAIN requests :
           (Finished(c) /\ requests[c].method = "getClient") =>
               /\ requests[c].result.kind \in {"rejected", "client"}
               /\ requests[c].result.kind = "rejected" =>
                      /\ requests[c].result.message = NotAuthenticatedMessage
                      /\ requests[c].outcome \in ReadOutcomes \ {"valid"}
               /\ requests[c].result.kind = "client" =>
                      /\ requests[c].result.client.present
                      /\ requests[c].result.client.id \in 1..created
                      /\ AnyLoaded
               /\ ~AnyLoaded => requests[c].result.kind = "rejected"
               /\ (requests[c].outcome = "valid" \/ requests[c].sawInitialized) =>
                      requests[c].result.kind = "client"

\* C25 witness: a getClient call whose read found a record that is not
\* authenticated was rejected, and a later getClient call returned the client.
C25_Witness ==
    /\ Finished(1) /\ Finished(2)
    /\ requests[1].method = "getClient" /\ requests[2].method = "getClient"
    /\ requests[1].outcome = "unauthenticated"
    /\ requests[1].result.kind = "rejected"
    /\ 1 \in requests[2].after
    /\ requests[2].result.kind = "client"
    /\ isAuthenticated

\* C26 (as claimed): when the calls are started concurrently on a fresh
\* instance and every read finds a valid record, every call that completes
\* gives the authenticated result, and the flag is never set without a client.
C26_ConcurrentCallsAllAuthenticated ==
    /\ isInitialized => client.present
    /\ (AllReadsValid /\ StartedConcurrently) =>
           \A c \in DOMAIN requests :
               Finished(c) =>
                   \/ requests[c].result.kind = "client"
                   \/ /\ requests[c].result.kind = "status"
                      /\ requests[c].result.isAuthenticated

\* C26 (amended): under the same conditions every getClient call returns a
\* client, every getAuthStatus call requests /me and reports authenticated
\* exactly when that request succeeds, and the flag is never set without a
\* client.
C26_ConcurrentCallsAuthenticatedIfMeSucceeds ==
    /\ isInitialized => client.present
    /\ (AllReadsValid /\ StartedConcurrently) =>
           \A c \in DOMAIN requests :
               Finished(c) =>
                   IF requests[c].method = "getClient"
                   THEN /\ requests[c].result.kind = "client"
                        /\ requests[c].result.client.present
                   ELSE /\ requests[c].result.kind = "status"
                        /\ requests[c].me \in {"resolved", "rejected"}
                        /\ requests[c].result.isAuthenticated <=>
                               requests[c].me = "resolved"

\* C26 witness: two getAuthStatus calls overlapped, both reads found a valid
\* record, the /me request of one succeeded and that of the other failed.
C26_Witness ==
    /\ AllReadsValid /\ StartedConcurrently
    /\ Finished(1) /\ Finished(2)
    /\ requests[1].method = "getAuthStatus" /\ requests[2].method = "getAuthStatus"
    /\ requests[1].read /\ requests[2].read
    /\ requests[1].result.isAuthenticated
    /\ requests[2].me = "rejected"
    /\ ~requests[2].result.isAuthenticated

\* C27 (as claimed): with a valid authentication record, under every
\* interleaving of the calls the file is read at most once and
\* Client.initWithMiddleware is invoked at most once.
C27_ClientCreatedAtMostOnce ==
    AllReadsValid => (FileReads <= 1 /\ created <= 1)

\* C28: initialisation latches only on success: as long as every attempt has
\* failed the flag is false, and a call made then reads the file again; once
\* an attempt has succeeded the flag is set, and a call made after that
\* neither reads the file nor replaces the client.
C28_InitialisationLatchesOnSuccessOnly ==
    /\ isInitialized <=> AnyLoaded
    /\ client.present => client.id = created
    /\ created = Cardinality({c \in DOMAIN requests : requests[c].outcome = "valid"})
    /\ \A c \in DOMAIN requests :
           Started(c) =>
               /\ requests[c].read <=> ~requests[c].sawInitialized
               /\ (\A d \in requests[c].after : requests[d].outcome # "valid")
                      \/ requests[c].sawInitialized
               /\ requests[c].sawInitialized =>
                      /\ ~requests[c].read
                      /\ requests[c].outcome = "none"
               /\ (\A d \in DOMAIN requests : d # c => requests[d].outcome # "valid") =>
                      requests[c].read

\* C28 witness: the first call found no file; the second call, made after it,
\* read the file again and created the client; the third call, made after
\* that, did not read.
C28_Witness ==
    /\ Finished(1) /\ Finished(2) /\ Finished(3)
    /\ requests[1].outcome = "ENOENT"
    /\ 1 \in requests[2].after
    /\ requests[2].read
    /\ requests[2].outcome = "valid"
    /\ 2 \in requests[3].after
    /\ ~requests[3].read
    /\ client = [present |-> TRUE, id |-> 1]

=============================================================================
